---- MODULE Spec2Model ----
(***************************************************************************)
(* Model of utilities/python/network_analyzer.py: the NetworkAnalyzer      *)
(* class (ping_host, scan_port, scan_port_range, ping_sweep, resolve_dns,  *)
(* get_report) and main(), which runs the requested operations in the      *)
(* fixed order ping, dns, sweep, scan, report.                             *)
(*                                                                         *)
(* Text is a sequence of one-character strings, so that splitting and      *)
(* int() are computed and not assumed.  An IPv4 address is its four        *)
(* octets; a CIDR block is the octets and the prefix length that           *)
(* ip_network reads from the text.                                         *)
(***************************************************************************)
EXTENDS Integers, Sequences, FiniteSets, TLC

VARIABLES
    args,         \* the parsed command line (argparse namespace), fixed
    pc,           \* position in main()
    results,      \* analyzer.results
    targets,      \* the sequence the running sweep/scan iterates over
    idx,          \* index into targets of the next target
    acc,          \* reachable_hosts / open_ports of the running call
    ret,          \* value returned by the last ping_sweep / scan_port_range
    log,          \* history: the probes finished by the running call
    inflight,     \* probes started and not yet finished
    spawned,      \* ping subprocesses started so far
    connects,     \* sockets created for a connect so far
    openSockets,  \* sockets created and not closed by sock.close()
    probedFor,    \* the requests for which a probe has been started
    failedOp,     \* the request whose validation raised ("none" if none)
    fault,        \* the exception that ended main ("none" if none)
    dnsResult,    \* what resolve_dns returned, and how the lookup ended
    report,       \* what get_report returned
    ui            \* the script browser (scriptvault_ui.py), see SpecUI

vars == <<args, pc, results, targets, idx, acc, ret, log, inflight, spawned,
          connects, openSockets, probedFor, failedOp, fault, dnsResult, report,
          ui>>

(***************************************************************************)
(* Bounds of the model.                                                    *)
(***************************************************************************)
\* longest --ports text enumerated by SpecScan
MaxSpecLen == 5
\* most ports a scan of SpecScan iterates over
MaxPorts == 3
\* host bits of the largest block swept by Spec
SweepHostBits == 2
\* host bits of the largest block expanded by SpecExpand
ExpandHostBits == 4

Range(s) == {s[i] : i \in DOMAIN s}

Min(S) == CHOOSE x \in S : \A y \in S : x <= y

(***************************************************************************)
(* Text: str.split and int().                                              *)
(***************************************************************************)
DigitChars == <<"0", "1", "2", "3", "4", "5", "6", "7", "8", "9">>

Digits == Range(DigitChars)

DigitValue(c) == (CHOOSE i \in DOMAIN DigitChars : DigitChars[i] = c) - 1

\* the characters --ports texts are built from
Alphabet == {"0", "1", "9", "-", ",", "x"}

\* s.split(sep): the pieces between the separators, empty pieces kept
RECURSIVE Split(_, _)
Split(s, sep) ==
    LET at == {i \in DOMAIN s : s[i] = sep}
    IN  IF at = {} THEN <<s>>
        ELSE <<SubSeq(s, 1, Min(at) - 1)>>
                 \o Split(SubSeq(s, Min(at) + 1, Len(s)), sep)

\* int(tok) raises ValueError unless tok is a non-empty run of digits
\* (over Alphabet: no sign, blank or underscore occurs)
IsInt(tok) == Len(tok) > 0 /\ \A i \in DOMAIN tok : tok[i] \in Digits

RECURSIVE IntOf(_)
IntOf(tok) ==
    IF Len(tok) = 0 THEN 0
    ELSE 10 * IntOf(SubSeq(tok, 1, Len(tok) - 1)) + DigitValue(tok[Len(tok)])

\* len(range(a, b))
RangeLen(a, b) == IF b > a THEN b - a ELSE 0

\* list(range(a, b))
PyRange(a, b) == [i \in 1..RangeLen(a, b) |-> a + i - 1]

(***************************************************************************)
(* main(), lines 141-147: the --ports text to the ports to scan.  A text   *)
(* holding a dash is split on it and must unpack into two ints; any other  *)
(* text is a comma list of ints.  error stands for the ValueError of int() *)
(* or of the unpacking; nothing else is checked.                           *)
(***************************************************************************)
ParsePorts(spec) ==
    IF "-" \in Range(spec)
    THEN LET parts == Split(spec, "-")
         IN  IF Len(parts) = 2 /\ IsInt(parts[1]) /\ IsInt(parts[2])
             THEN [error |-> FALSE,
                   ports |-> PyRange(IntOf(parts[1]), IntOf(parts[2]) + 1)]
             ELSE [error |-> TRUE, ports |-> <<>>]
    ELSE LET parts == Split(spec, ",")
         IN  IF \A i \in DOMAIN parts : IsInt(parts[i])
             THEN [error |-> FALSE,
                   ports |-> [i \in DOMAIN parts |-> IntOf(parts[i])]]
             ELSE [error |-> TRUE, ports |-> <<>>]

\* how many ports ParsePorts yields, computed without building the range
PortCount(spec) ==
    IF "-" \in Range(spec)
    THEN LET parts == Split(spec, "-")
         IN  IF Len(parts) = 2 /\ IsInt(parts[1]) /\ IsInt(parts[2])
             THEN RangeLen(IntOf(parts[1]), IntOf(parts[2]) + 1)
             ELSE 0
    ELSE Len(Split(spec, ","))

(***************************************************************************)
(* ip_network(network, strict=False).hosts(), line 74.                     *)
(***************************************************************************)
AddrValue(o) == ((o[1] * 256 + o[2]) * 256 + o[3]) * 256 + o[4]

\* str(ip): the dotted quad of a 32-bit value, kept as its octets
AddrOctets(n) ==
    <<n \div 16777216, (n \div 65536) % 256, (n \div 256) % 256, n % 256>>

\* ip_network raises ValueError on an octet or a prefix length out of range
ValidCidr(c) ==
    /\ Len(c.octets) = 4
    /\ \A i \in 1..4 : c.octets[i] \in 0..255
    /\ c.prefix \in 0..32

BlockSize(c) == 2 ^ (32 - c.prefix)

\* strict=False: the host bits of the given address are masked off
NetworkAddress(c) == AddrValue(c.octets) - (AddrValue(c.octets) % BlockSize(c))

BroadcastAddress(c) == NetworkAddress(c) + BlockSize(c) - 1

\* hosts() iterating the whole block, network and broadcast included
HostsWholeBlock(c) ==
    [i \in 1..BlockSize(c) |-> AddrOctets(NetworkAddress(c) + i - 1)]

\* hosts(): /32 yields its one address, /31 both of its addresses, any
\* other block the addresses strictly between network and broadcast
Hosts(c) ==
    IF c.prefix = 32 THEN <<AddrOctets(NetworkAddress(c))>>
    ELSE IF c.prefix = 31
         THEN <<AddrOctets(NetworkAddress(c)),
                AddrOctets(NetworkAddress(c) + 1)>>
         ELSE [i \in 1..(BlockSize(c) - 2) |->
                  AddrOctets(NetworkAddress(c) + i)]

(***************************************************************************)
(* The probes.  An outcome is how the blocking call ends: a return value   *)
(* of the call, or the exception it raises (named by its class).           *)
(***************************************************************************)
\* subprocess.run(['ping', ...], timeout=10): exit status 0, another exit
\* status, the timeout, the binary missing, or Ctrl-C while waiting
PingOutcomes ==
    {"rc0", "rc1", "TimeoutExpired", "FileNotFoundError", "KeyboardInterrupt"}

\* sock.connect_ex: 0, an errno (refused, timed out, unreachable), or an
\* exception: connect_ex reports only the C connect's errors as a code
ConnectOutcomes ==
    {"connected", "ECONNREFUSED", "EAGAIN", "ENETUNREACH", "gaierror",
     "OverflowError", "KeyboardInterrupt"}

\* what connect_ex can do for a port: a port beyond 16 bits is refused by
\* the socket module before any packet is sent, port 0 never accepts
ConnectOutcomesFor(port) ==
    IF port > 65535 THEN {"OverflowError", "KeyboardInterrupt"}
    ELSE IF port = 0 THEN ConnectOutcomes \ {"connected", "OverflowError"}
    ELSE ConnectOutcomes \ {"OverflowError"}

Raises(outcome) ==
    outcome \in {"TimeoutExpired", "FileNotFoundError", "gaierror",
                 "OverflowError", "UnicodeError", "KeyboardInterrupt"}

\* the classes `except Exception` catches: KeyboardInterrupt is not one
IsException(exc) ==
    exc \in {"TimeoutExpired", "FileNotFoundError", "gaierror",
             "OverflowError", "UnicodeError", "ValueError"}

\* ping_host with `except subprocess.TimeoutExpired` in place of
\* `except Exception`: a failure to spawn ping propagates
PingHostTimeoutOnly(outcome) ==
    IF Raises(outcome)
    THEN IF outcome = "TimeoutExpired"
         THEN [raised |-> FALSE, ok |-> FALSE]
         ELSE [raised |-> TRUE, ok |-> FALSE]
    ELSE [raised |-> FALSE, ok |-> outcome = "rc0"]

\* ping_host, lines 23-43: returncode == 0, or False for a caught exception
PingHost(outcome) ==
    IF Raises(outcome)
    THEN IF IsException(outcome)
         THEN [raised |-> FALSE, ok |-> FALSE]
         ELSE [raised |-> TRUE, ok |-> FALSE]
    ELSE [raised |-> FALSE, ok |-> outcome = "rc0"]

\* scan_port without the comparison to 0: any returned code counts as open
ScanPortAnyCode(outcome) ==
    IF Raises(outcome)
    THEN IF IsException(outcome)
         THEN [raised |-> FALSE, ok |-> FALSE, closed |-> FALSE]
         ELSE [raised |-> TRUE, ok |-> FALSE, closed |-> FALSE]
    ELSE [raised |-> FALSE, ok |-> TRUE, closed |-> TRUE]

\* scan_port, lines 45-55: result == 0 after sock.close(), or False for a
\* caught exception, which skips the close
ScanPort(outcome) ==
    IF Raises(outcome)
    THEN IF IsException(outcome)
         THEN [raised |-> FALSE, ok |-> FALSE, closed |-> FALSE]
         ELSE [raised |-> TRUE, ok |-> FALSE, closed |-> FALSE]
    ELSE [raised |-> FALSE, ok |-> outcome = "connected", closed |-> TRUE]

\* the loop body with insert(0, target) in place of append(target)
CollectPrepend(list, target, ok) == IF ok THEN <<target>> \o list ELSE list

\* the loop body appending a target only when it is not in the list yet
CollectUnique(list, target, ok) ==
    IF ok /\ target \notin Range(list) THEN Append(list, target) ELSE list

\* the loop body keeping the targets whose probe failed
CollectFailed(list, target, ok) == IF ok THEN list ELSE Append(list, target)

\* lines 63-64 and 78-79: a target is appended when its probe succeeded
Collect(list, target, ok) == IF ok THEN Append(list, target) ELSE list

\* the sockets left open when scan_port returns: one fewer after
\* sock.close(); a socket the code never closes is closed by the interpreter
\* when it finalizes the object, which reference counting does on return and
\* another collector later or not at all
SocketsAfter(n, closed) == IF closed THEN {n - 1} ELSE {n - 1, n}

\* the loop leaving (break) at the first target whose probe failed
AdvanceBreakOnFailure(i, ok) == IF ok THEN i + 1 ELSE Len(targets) + 1

\* lines 62 and 74: the for loop goes on to the next target, whatever the
\* probe returned
Advance(i, ok) == i + 1

\* a probe started without waiting for it (Popen in place of run)
AfterCallNoWait(n) == n

\* lines 63 and 76: the call blocks until the probe has finished
AfterCall(n) == n - 1

(***************************************************************************)
(* resolve_dns, lines 84-90: only socket.gaierror is caught.               *)
(***************************************************************************)
\* the error codes socket.gaierror carries: the name does not exist, or the
\* resolver could not be reached
GaiErrors == {"EAI_NONAME", "EAI_AGAIN"}

\* socket.gethostbyname: an address, a gaierror, or the UnicodeError of a
\* name the idna codec rejects (a label of more than 63 characters)
DnsOutcomes == {"address"} \cup GaiErrors \cup {"UnicodeError"}

ResolveDns(outcome) ==
    IF outcome \in GaiErrors
    THEN [raised |-> FALSE, value |-> "None"]
    ELSE IF Raises(outcome)
         THEN [raised |-> TRUE, value |-> "None"]
         ELSE [raised |-> FALSE, value |-> "address"]

(***************************************************************************)
(* get_report, lines 92-107: the two counts of the summary.                *)
(***************************************************************************)
\* r.get('reachable') is truthy
GetReachable(r) == "reachable" \in DOMAIN r /\ r.reachable

NoReport ==
    [made |-> FALSE, error |-> FALSE, scans |-> 0, hosts_reached |-> 0]

\* get_report dividing by the number of entries: an error on an empty log
GetReportRate(log_) ==
    [made |-> TRUE, error |-> Len(log_) = 0, scans |-> Len(log_),
     hosts_reached |->
         Cardinality({i \in DOMAIN log_ : GetReachable(log_[i])})]

GetReport(log_) ==
    [made |-> TRUE, error |-> FALSE, scans |-> Len(log_),
     hosts_reached |->
         Cardinality({i \in DOMAIN log_ : GetReachable(log_[i])})]

(***************************************************************************)
(* main(), lines 110-158.                                                  *)
(***************************************************************************)
\* the --sweep blocks of Spec: an address with host bits set, under every
\* prefix length down to 32 - SweepHostBits, and under the invalid 33
MainCidrs ==
    {[octets |-> <<10, 0, 0, 9>>, prefix |-> p] :
        p \in (32 - SweepHostBits)..33}

NoCidr == [octets |-> <<0, 0, 0, 0>>, prefix |-> 32]

\* the --ports texts of Spec: "1,9,1", "9-11", "9-1", "1,x" (SpecScan has
\* the others)
MainPortSpecs ==
    {<<"1", ",", "9", ",", "1">>, <<"9", "-", "1", "1">>, <<"9", "-", "1">>,
     <<"1", ",", "x">>}

\* the script browser is another program: it is not open in a run of main
NoUi == [open |-> FALSE]

\* line 121: analyzer = NetworkAnalyzer(), results = []
Start(a, at) ==
    /\ args = a
    /\ pc = at
    /\ results = <<>>
    /\ targets = <<>>
    /\ idx = 1
    /\ acc = <<>>
    /\ ret = <<>>
    /\ log = <<>>
    /\ inflight = 0
    /\ spawned = 0
    /\ connects = 0
    /\ openSockets = 0
    /\ probedFor = {}
    /\ failedOp = "none"
    /\ fault = "none"
    /\ dnsResult = [value |-> "unset", outcome |-> "none"]
    /\ report = NoReport

Init ==
    \E a \in [ping : BOOLEAN, dns : BOOLEAN, sweep : BOOLEAN,
              cidr : MainCidrs \cup {NoCidr}, scan : BOOLEAN,
              ports : MainPortSpecs \cup {<<>>}, output : BOOLEAN] :
        /\ a.sweep <=> a.cidr # NoCidr
        \* --ports without --scan is ignored, whatever the text
        /\ ~a.scan => a.ports \in {<<>>, <<"1", ",", "x">>}
        /\ Start(a, "ping")
        /\ ui = NoUi

\* an uncaught exception ends main with a traceback
Crash(exc, op) ==
    /\ pc' = "crashed"
    /\ fault' = exc
    /\ failedOp' = op

\* lines 123-126
PingSkip ==
    /\ pc = "ping" /\ ~args.ping
    /\ pc' = "dns"
    /\ UNCHANGED <<ui, args, results, targets, idx, acc, ret, log, inflight,
                   spawned, connects, openSockets, probedFor, failedOp, fault,
                   dnsResult, report>>

PingStart ==
    /\ pc = "ping" /\ args.ping
    /\ pc' = "ping_wait"
    /\ inflight' = inflight + 1
    /\ spawned' = spawned + 1
    /\ probedFor' = probedFor \cup {"ping"}
    /\ UNCHANGED <<ui, args, results, targets, idx, acc, ret, log, connects,
                   openSockets, failedOp, fault, dnsResult, report>>

PingFinish ==
    /\ pc = "ping_wait"
    /\ \E outcome \in PingOutcomes :
          LET r == PingHost(outcome)
          IN  /\ inflight' = AfterCall(inflight)
              /\ IF r.raised
                 THEN /\ Crash(outcome, "none")
                      /\ UNCHANGED results
                 ELSE /\ pc' = "dns"
                      /\ results' = Append(results,
                             [type |-> "ping", reachable |-> r.ok])
                      /\ UNCHANGED <<failedOp, fault>>
    /\ UNCHANGED <<ui, args, targets, idx, acc, ret, log, spawned, connects,
                   openSockets, probedFor, dnsResult, report>>

\* lines 128-133
DnsSkip ==
    /\ pc = "dns" /\ ~args.dns
    /\ pc' = "sweep"
    /\ UNCHANGED <<ui, args, results, targets, idx, acc, ret, log, inflight,
                   spawned, connects, openSockets, probedFor, failedOp, fault,
                   dnsResult, report>>

DnsResolve ==
    /\ pc = "dns" /\ args.dns
    /\ \E outcome \in DnsOutcomes :
          LET r == ResolveDns(outcome)
          IN  IF r.raised
              THEN /\ Crash(outcome, "none")
                   /\ UNCHANGED dnsResult
              ELSE /\ pc' = "sweep"
                   /\ dnsResult' = [value |-> r.value, outcome |-> outcome]
                   /\ UNCHANGED <<failedOp, fault>>
    /\ UNCHANGED <<ui, args, results, targets, idx, acc, ret, log, inflight,
                   spawned, connects, openSockets, probedFor, report>>

\* lines 135-138 and ping_sweep, lines 69-82
SweepSkip ==
    /\ pc = "sweep" /\ ~args.sweep
    /\ pc' = "scan"
    /\ UNCHANGED <<ui, args, results, targets, idx, acc, ret, log, inflight,
                   spawned, connects, openSockets, probedFor, failedOp, fault,
                   dnsResult, report>>

\* line 74: ip_network(...) is evaluated before the first iteration
SweepBegin ==
    /\ pc = "sweep" /\ args.sweep
    /\ IF ValidCidr(args.cidr)
       THEN /\ pc' = "sweep_loop"
            /\ targets' = Hosts(args.cidr)
            /\ idx' = 1
            /\ acc' = <<>>
            /\ log' = <<>>
            /\ UNCHANGED <<failedOp, fault>>
       ELSE /\ Crash("ValueError", "sweep")
            /\ UNCHANGED <<targets, idx, acc, log>>
    /\ UNCHANGED <<ui, args, results, ret, inflight, spawned, connects,
                   openSockets, probedFor, dnsResult, report>>

\* line 76: ping_host(ip_str, count=1) is called
SweepProbeStart ==
    /\ pc = "sweep_loop" /\ idx <= Len(targets)
    /\ pc' = "sweep_wait"
    /\ inflight' = inflight + 1
    /\ spawned' = spawned + 1
    /\ probedFor' = probedFor \cup {"sweep"}
    /\ UNCHANGED <<ui, args, results, targets, idx, acc, ret, log, connects,
                   openSockets, failedOp, fault, dnsResult, report>>

\* lines 76-80: ping_host returns, the host is kept when reachable
SweepProbeFinish ==
    /\ pc = "sweep_wait"
    /\ \E outcome \in PingOutcomes :
          LET r == PingHost(outcome)
          IN  /\ inflight' = AfterCall(inflight)
              /\ IF r.raised
                 THEN /\ Crash(outcome, "none")
                      /\ UNCHANGED <<idx, acc, log>>
                 ELSE /\ pc' = "sweep_loop"
                      /\ acc' = Collect(acc, targets[idx], r.ok)
                      /\ log' = Append(log, [target |-> targets[idx],
                                             outcome |-> outcome,
                                             ok |-> r.ok])
                      /\ idx' = Advance(idx, r.ok)
                      /\ UNCHANGED <<failedOp, fault>>
    /\ UNCHANGED <<ui, args, results, targets, ret, spawned, connects,
                   openSockets, probedFor, dnsResult, report>>

\* line 82: return reachable_hosts
SweepReturn ==
    /\ pc = "sweep_loop" /\ idx > Len(targets)
    /\ pc' = "sweep_done"
    /\ ret' = acc
    /\ UNCHANGED <<ui, args, results, targets, idx, acc, log, inflight, spawned,
                   connects, openSockets, probedFor, failedOp, fault,
                   dnsResult, report>>

\* line 138: the sweep is recorded by its number of reachable hosts
SweepRecord ==
    /\ pc = "sweep_done"
    /\ pc' = "scan"
    /\ results' = Append(results, [type |-> "sweep", hosts |-> Len(ret)])
    /\ targets' = <<>>
    /\ idx' = 1
    /\ acc' = <<>>
    /\ ret' = <<>>
    /\ log' = <<>>
    /\ UNCHANGED <<ui, args, inflight, spawned, connects, openSockets, probedFor,
                   failedOp, fault, dnsResult, report>>

\* lines 140-151 and scan_port_range, lines 57-67
ScanSkip ==
    /\ pc = "scan" /\ ~(args.scan /\ args.ports # <<>>)
    /\ pc' = "report"
    /\ UNCHANGED <<ui, args, results, targets, idx, acc, ret, log, inflight,
                   spawned, connects, openSockets, probedFor, failedOp, fault,
                   dnsResult, report>>

\* the port text parsed lazily (a generator in place of the list): the
\* ports before the first bad token are probed before int() raises
ScanBeginLazy ==
    /\ pc = "scan" /\ args.scan /\ args.ports # <<>>
    /\ IF ParsePorts(args.ports).error
       THEN /\ Crash("ValueError", "scan")
            /\ probedFor' =
                  IF IsInt(Split(args.ports, ",")[1])
                  THEN probedFor \cup {"scan"} ELSE probedFor
            /\ UNCHANGED <<targets, idx, acc, log>>
       ELSE /\ pc' = "scan_loop"
            /\ targets' = ParsePorts(args.ports).ports
            /\ idx' = 1
            /\ acc' = <<>>
            /\ log' = <<>>
            /\ UNCHANGED <<failedOp, fault, probedFor>>
    /\ UNCHANGED <<ui, args, results, ret, inflight, spawned, connects,
                   openSockets, dnsResult, report>>

\* lines 143-147: the whole port text is parsed before scan_port_range runs
ScanBegin ==
    /\ pc = "scan" /\ args.scan /\ args.ports # <<>>
    /\ IF ParsePorts(args.ports).error
       THEN /\ Crash("ValueError", "scan")
            /\ UNCHANGED <<targets, idx, acc, log>>
       ELSE /\ pc' = "scan_loop"
            /\ targets' = ParsePorts(args.ports).ports
            /\ idx' = 1
            /\ acc' = <<>>
            /\ log' = <<>>
            /\ UNCHANGED <<failedOp, fault>>
    /\ UNCHANGED <<ui, args, results, ret, inflight, spawned, connects,
                   openSockets, probedFor, dnsResult, report>>

\* lines 63 and 48-50: scan_port creates its socket and calls connect_ex
ScanProbeStart ==
    /\ pc = "scan_loop" /\ idx <= Len(targets)
    /\ pc' = "scan_wait"
    /\ inflight' = inflight + 1
    /\ connects' = connects + 1
    /\ openSockets' = openSockets + 1
    /\ probedFor' = probedFor \cup {"scan"}
    /\ UNCHANGED <<ui, args, results, targets, idx, acc, ret, log, spawned,
                   failedOp, fault, dnsResult, report>>

\* lines 50-55 and 63-65: connect_ex ends, the port is kept when open
ScanProbeFinish ==
    /\ pc = "scan_wait"
    /\ \E outcome \in ConnectOutcomesFor(targets[idx]) :
          LET r == ScanPort(outcome)
          IN  /\ inflight' = AfterCall(inflight)
              /\ openSockets' \in SocketsAfter(openSockets, r.closed)
              /\ IF r.raised
                 THEN /\ Crash(outcome, "none")
                      /\ UNCHANGED <<idx, acc, log>>
                 ELSE /\ pc' = "scan_loop"
                      /\ acc' = Collect(acc, targets[idx], r.ok)
                      /\ log' = Append(log, [target |-> targets[idx],
                                             outcome |-> outcome,
                                             ok |-> r.ok])
                      /\ idx' = Advance(idx, r.ok)
                      /\ UNCHANGED <<failedOp, fault>>
    /\ UNCHANGED <<ui, args, results, targets, ret, spawned, connects, probedFor,
                   dnsResult, report>>

\* line 67: return open_ports
ScanReturn ==
    /\ pc = "scan_loop" /\ idx > Len(targets)
    /\ pc' = "scan_done"
    /\ ret' = acc
    /\ UNCHANGED <<ui, args, results, targets, idx, acc, log, inflight, spawned,
                   connects, openSockets, probedFor, failedOp, fault,
                   dnsResult, report>>

\* line 151: the scan is recorded by its list of open ports
ScanRecord ==
    /\ pc = "scan_done"
    /\ pc' = "report"
    /\ results' = Append(results, [type |-> "scan", open_ports |-> ret])
    /\ targets' = <<>>
    /\ idx' = 1
    /\ acc' = <<>>
    /\ ret' = <<>>
    /\ log' = <<>>
    /\ UNCHANGED <<ui, args, inflight, spawned, connects, openSockets, probedFor,
                   failedOp, fault, dnsResult, report>>

\* lines 154-158
ReportSkip ==
    /\ pc = "report" /\ ~args.output
    /\ pc' = "done"
    /\ UNCHANGED <<ui, args, results, targets, idx, acc, ret, log, inflight,
                   spawned, connects, openSockets, probedFor, failedOp, fault,
                   dnsResult, report>>

Report ==
    /\ pc = "report" /\ args.output
    /\ report' = GetReport(results)
    /\ IF report'.error
       THEN Crash("Exception", "none")
       ELSE /\ pc' = "done"
            /\ UNCHANGED <<failedOp, fault>>
    /\ UNCHANGED <<ui, args, results, targets, idx, acc, ret, log, inflight,
                   spawned, connects, openSockets, probedFor, dnsResult>>

Next ==
    \/ PingSkip \/ PingStart \/ PingFinish
    \/ DnsSkip \/ DnsResolve
    \/ SweepSkip \/ SweepBegin \/ SweepProbeStart \/ SweepProbeFinish
    \/ SweepReturn \/ SweepRecord
    \/ ScanSkip \/ ScanBegin \/ ScanProbeStart \/ ScanProbeFinish
    \/ ScanReturn \/ ScanRecord
    \/ ReportSkip \/ Report

Spec == Init /\ [][Next]_vars

(***************************************************************************)
(* SpecScan: main() run with --scan and every --ports text of at most      *)
(* MaxSpecLen characters over Alphabet that yields at most MaxPorts ports. *)
(***************************************************************************)
PortSpecs == UNION {[1..n -> Alphabet] : n \in 0..MaxSpecLen}

InitScan ==
    \E spec \in PortSpecs :
        /\ PortCount(spec) <= MaxPorts
        /\ Start([ping |-> FALSE, dns |-> FALSE, sweep |-> FALSE,
                  cidr |-> NoCidr, scan |-> TRUE, ports |-> spec,
                  output |-> FALSE], "scan")
        /\ ui = NoUi

NextScan ==
    \/ ScanSkip \/ ScanBegin \/ ScanProbeStart \/ ScanProbeFinish
    \/ ScanReturn \/ ScanRecord \/ ReportSkip

SpecScan == InitScan /\ [][NextScan]_vars

(***************************************************************************)
(* SpecExpand: the expansion of --sweep blocks alone, for every address of *)
(* two adjacent blocks of ExpandHostBits host bits and every prefix length *)
(* from 32 - ExpandHostBits to the invalid 33.                             *)
(***************************************************************************)
ExpandCidrs ==
    {[octets |-> <<10, 0, 0, d>>, prefix |-> p] :
        d \in 0..(2 * (2 ^ ExpandHostBits) - 1),
        p \in (32 - ExpandHostBits)..33}

InitExpand ==
    \E c \in ExpandCidrs :
        Start([ping |-> FALSE, dns |-> FALSE, sweep |-> TRUE, cidr |-> c,
               scan |-> FALSE, ports |-> <<>>, output |-> FALSE], "sweep")
        /\ ui = NoUi

SpecExpand == InitExpand /\ [][SweepBegin]_vars

(***************************************************************************)
(* Properties.                                                             *)
(***************************************************************************)
Returned == pc \in {"sweep_done", "scan_done"}

\* a is b with some elements left out, the others in b's order
RECURSIVE IsSubseq(_, _)
IsSubseq(a, b) ==
    IF Len(a) = 0 THEN TRUE
    ELSE IF Len(b) = 0 THEN FALSE
    ELSE IF a[1] = b[1] THEN IsSubseq(Tail(a), Tail(b))
    ELSE IsSubseq(a, Tail(b))

\* C1: the sequence a sweep or scan returns is in the order of its input
\* targets: it is the target sequence with the failed targets left out.
C1_InputOrderKept == Returned => IsSubseq(ret, targets)

\* a sweep has returned its two hosts, both reachable
C1_Witness == pc = "sweep_done" /\ Len(targets) = 2 /\ ret = targets

ProbeFailureModes ==
    {"rc1", "TimeoutExpired", "FileNotFoundError", "ECONNREFUSED", "EAGAIN",
     "ENETUNREACH", "gaierror"}

\* C5: no failure mode of a probe's underlying call ends main as a fault;
\* each is a finished probe with a non-success result.
C5_ProbesNeverRaise ==
    /\ fault \notin ProbeFailureModes
    /\ \A i \in DOMAIN log :
          log[i].outcome \in ProbeFailureModes => ~log[i].ok

\* a sweep goes on after a probe whose ping could not be spawned
C5_Witness ==
    /\ pc = "sweep_wait"
    /\ \E i \in DOMAIN log : log[i].outcome = "FileNotFoundError"

\* the port texts C6 calls invalid: a token that is not a number, a range
\* whose start exceeds its end, a value outside 1..65535
InvalidPortSpec(spec) ==
    IF "-" \in Range(spec)
    THEN LET parts == Split(spec, "-")
         IN  \/ Len(parts) # 2
             \/ \E i \in DOMAIN parts : ~IsInt(parts[i])
             \/ IntOf(parts[1]) > IntOf(parts[2])
             \/ \E i \in DOMAIN parts : IntOf(parts[i]) \notin 1..65535
    ELSE LET parts == Split(spec, ",")
         IN  \E i \in DOMAIN parts :
                 ~IsInt(parts[i]) \/ IntOf(parts[i]) \notin 1..65535

\* C6: once main has read an invalid port text it has failed with the
\* parse error, and no port has been probed.
C6_InvalidSpecRejected ==
    (args.scan /\ args.ports # <<>> /\ InvalidPortSpec(args.ports)
        /\ pc # "scan")
    => (pc = "crashed" /\ fault = "ValueError" /\ connects = 0)

\* C7: the targets of a valid block of prefix length p <= 30 ascend
\* strictly, lie strictly between the block's network and broadcast
\* addresses, and are 2^(32-p) - 2 in number.
C7_UsableHosts ==
    (pc = "sweep_loop" /\ args.cidr.prefix <= 30) =>
        LET size == 2 ^ (32 - args.cidr.prefix)
            given == AddrValue(args.cidr.octets)
            network == given - (given % size)
        IN  /\ Len(targets) = size - 2
            /\ \A i \in DOMAIN targets :
                  /\ AddrValue(targets[i]) > network
                  /\ AddrValue(targets[i]) < network + size - 1
            /\ \A i \in 1..(Len(targets) - 1) :
                  AddrValue(targets[i]) < AddrValue(targets[i + 1])

\* a /28 given by an address with host bits set is expanded
C7_Witness ==
    /\ pc = "sweep_loop"
    /\ args.cidr.prefix = 28
    /\ args.cidr.octets[4] % 16 # 0
    /\ Len(targets) = 14

\* C8 as claimed: when main ends with a validation error, no ping has been
\* spawned and no connect attempted.
C8_NoProbeBeforeError ==
    fault = "ValueError" => (spawned = 0 /\ connects = 0)

\* C8 as amended: when main ends with a validation error, the request that
\* failed has started no probe (earlier requests of the invocation may have).
C8_NoProbeOfFailedRequest ==
    fault = "ValueError" =>
        (failedOp \in {"sweep", "scan"} /\ failedOp \notin probedFor)

\* the port text is rejected after the ping and the sweep have probed
C8_Witness ==
    /\ fault = "ValueError" /\ failedOp = "scan"
    /\ probedFor = {"ping", "sweep"}

\* C9: a summary asked for is produced without error, and on an empty log
\* it states zero scans and zero hosts.
C9_SummaryAlways ==
    /\ (args.output /\ pc = "done") => report.made
    /\ report.made =>
          /\ ~report.error
          /\ pc = "done"
          /\ (results = <<>> => report.scans = 0 /\ report.hosts_reached = 0)

\* the summary of a run that recorded nothing
C9_Witness == report.made /\ results = <<>> /\ pc = "done"

\* the hosts the log records as reachable: one per successful ping, and the
\* reachable hosts of each sweep
RECURSIVE ReachableRecorded(_)
ReachableRecorded(log_) ==
    IF Len(log_) = 0 THEN 0
    ELSE ReachableRecorded(Tail(log_))
         + (IF log_[1].type = "ping" /\ log_[1].reachable THEN 1
            ELSE IF log_[1].type = "sweep" THEN log_[1].hosts ELSE 0)

\* C10: the summary counts every recorded entry, and its reachable hosts
\* include those the recorded sweeps found.
C10_SummaryFoldsAllKinds ==
    report.made =>
        /\ report.scans = Len(results)
        /\ report.hosts_reached = ReachableRecorded(results)

\* C11: resolve_dns tells three outcomes apart: an address, "not found" for
\* a name that does not exist, and a resolver failure, which is never
\* returned as "not found"; and no exception of the lookup ends main.
C11_ThreeOutcomes ==
    /\ dnsResult.outcome = "address" => dnsResult.value = "address"
    /\ dnsResult.outcome = "EAI_NONAME" => dnsResult.value = "None"
    /\ dnsResult.outcome = "EAI_AGAIN" => dnsResult.value # "None"
    /\ fault # "UnicodeError"

\* a sweep or scan was interrupted (Ctrl-C) while one of its probes ran
Stopped == fault = "KeyboardInterrupt" /\ Len(targets) > 0

\* C12: a sweep or scan stopped by the caller while probes remain returns
\* what it has collected so far, and does not raise.
C12_StopReturnsPartial == Stopped => (Returned /\ ret = acc)

\* C13: once scan_port has returned, on any of its exit paths, the socket it
\* created is closed: no socket is open outside a running connect.
C13_SocketsReleased ==
    (pc # "scan_wait" /\ fault # "KeyboardInterrupt") => openSockets = 0

\* C14: a sweep or scan that returns has probed every target once, in
\* order, whatever the probes' results: as many probes were started as
\* there are targets, each occurrence of a duplicated port counted.
C14_EachTargetOnce ==
    /\ Returned =>
          /\ Len(log) = Len(targets)
          /\ \A i \in DOMAIN log : log[i].target = targets[i]
    /\ pc = "scan_done" => connects = Len(targets)
    /\ pc = "sweep_done" =>
          spawned = Len(targets) + (IF "ping" \in probedFor THEN 1 ELSE 0)

\* "1,9,1" scanned with the first connect refused and the others accepted
C14_Witness ==
    /\ pc = "scan_done"
    /\ targets = <<1, 9, 1>>
    /\ log[1].outcome = "ECONNREFUSED"
    /\ ret = <<9, 1>>

(***************************************************************************)
(* SpecLive: the sweep and the scan of main(), with the step that is       *)
(* enabled eventually taken.  Every blocking call is bounded:              *)
(* subprocess.run has timeout=10 (lines 32 and 39) and the socket has      *)
(* settimeout(timeout) (line 49), so a probe in flight finishes, and the   *)
(* steps between the calls do not block.                                   *)
(***************************************************************************)
InitLive ==
    \E a \in [ping : {FALSE}, dns : {FALSE}, sweep : BOOLEAN,
              cidr : MainCidrs \cup {NoCidr}, scan : {TRUE},
              ports : MainPortSpecs \cup {<<>>}, output : {FALSE}] :
        /\ a.sweep <=> a.cidr # NoCidr
        /\ Start(a, "sweep")
        /\ ui = NoUi

NextLive ==
    \/ SweepSkip \/ SweepBegin \/ SweepProbeStart \/ SweepProbeFinish
    \/ SweepReturn \/ SweepRecord
    \/ ScanSkip \/ ScanBegin \/ ScanProbeStart \/ ScanProbeFinish
    \/ ScanReturn \/ ScanRecord \/ ReportSkip

SpecLive == InitLive /\ [][NextLive]_vars /\ WF_vars(NextLive)

\* a probe of a sweep or scan is in flight and targets after it remain
LaterTargetsWait ==
    pc \in {"sweep_wait", "scan_wait"} /\ idx < Len(targets)

RECURSIVE SucceededTargets(_, _)
SucceededTargets(ts, lg) ==
    IF Len(ts) = 0 \/ Len(lg) = 0 THEN <<>>
    ELSE (IF lg[1].ok THEN <<ts[1]>> ELSE <<>>)
             \o SucceededTargets(Tail(ts), Tail(lg))

\* C16: the list a sweep or scan returns is the input targets whose probe
\* succeeded, in input order, one element per successful occurrence: no
\* longer than the input, and empty when no probe succeeded.
C16_SucceededSubsequence ==
    Returned =>
        /\ ret = SucceededTargets(targets, log)
        /\ Len(ret) <= Len(targets)
        /\ (\A i \in DOMAIN log : ~log[i].ok) => ret = <<>>

\* "1,9,1" scanned with port 9 closed returns both occurrences of port 1
C16_Witness ==
    /\ pc = "scan_done"
    /\ targets = <<1, 9, 1>>
    /\ ret = <<1, 1>>

(***************************************************************************)
(* scriptvault_ui.py: the script browser's filter state.  scripts and      *)
(* filtered_scripts are dicts keyed by path; a dict is modelled by the set *)
(* of its entries, each entry holding the path beside the fields of its    *)
(* value that the filters read.                                            *)
(***************************************************************************)
\* longest text typed into the search box
MaxQueryLen == 1

\* str.lower() on the letters that occur
LowerChar(c) == IF c = "A" THEN "a" ELSE IF c = "B" THEN "b" ELSE c

Lower(s) == [i \in DOMAIN s |-> LowerChar(s[i])]

\* q in s, for strings: s holds q as a run of consecutive characters
Contains(q, s) ==
    \E i \in 1..(Len(s) - Len(q) + 1) : SubSeq(s, i, i + Len(q) - 1) = q

\* the scripts that may be on disk when load_scripts runs (lines 64-117):
\* name is the last component of path, category what get_category returns
ScriptPool ==
    {[path |-> <<"n", "/", "A">>, name |-> <<"A">>, category |-> "Network",
      description |-> <<"b">>],
     [path |-> <<"s", "/", "b">>, name |-> <<"b">>, category |-> "Server",
      description |-> <<"a">>],
     [path |-> <<"s", "/", "c">>, name |-> <<"c">>, category |-> "Server",
      description |-> <<>>]}

\* the characters typed into the search box
QueryChars == {"a", "b", "B", "c", "/", "z"}

Queries == UNION {[1..n -> QueryChars] : n \in 0..MaxQueryLen}

\* lines 372-378 and 396-402: the scripts of a category, all of them for 'All'
InCategory(scripts, category) ==
    IF category = "All" THEN scripts
    ELSE {e \in scripts : e.category = category}

\* filter_by_category, lines 372-386: the category filter, then the query
\* looked for in the path and the name
FilterByCategoryResult(scripts, category, query) ==
    IF Len(query) > 0
    THEN {e \in InCategory(scripts, category) :
             Contains(query, Lower(e.path)) \/ Contains(query, Lower(e.name))}
    ELSE InCategory(scripts, category)

\* on_search, lines 395-411: the category filter, then the query looked
\* for in the path, the name and the description
OnSearchResult(scripts, category, query) ==
    IF Len(query) = 0 THEN InCategory(scripts, category)
    ELSE {e \in InCategory(scripts, category) :
             \/ Contains(query, Lower(e.path))
             \/ Contains(query, Lower(e.name))
             \/ Contains(query, Lower(e.description))}

\* update_categories, lines 335-364: a button for 'All' and one for every
\* category among the filtered scripts
CategoryButtons(filtered) == {"All"} \cup {e.category : e \in filtered}

\* __init__ (lines 34-41) and refresh_scripts (lines 526-533): the scripts
\* on disk are loaded and shown unfiltered
Loaded(disk) ==
    [open |-> TRUE, scripts |-> disk, filtered_scripts |-> disk,
     current_category |-> "All", search_var |-> <<>>,
     buttons |-> CategoryButtons(disk)]

InitUI ==
    /\ Start([ping |-> FALSE, dns |-> FALSE, sweep |-> FALSE,
              cidr |-> NoCidr, scan |-> FALSE, ports |-> <<>>,
              output |-> FALSE], "done")
    /\ \E disk \in SUBSET ScriptPool : ui = Loaded(disk)

\* the search box is written (line 200): on_search runs, lines 391-413
OnSearch ==
    /\ ui.open
    /\ \E text \in Queries :
          ui' = [ui EXCEPT
                    !.search_var = text,
                    !.filtered_scripts =
                        OnSearchResult(ui.scripts, ui.current_category,
                                       Lower(text))]
    /\ UNCHANGED <<args, pc, results, targets, idx, acc, ret, log, inflight,
                   spawned, connects, openSockets, probedFor, failedOp, fault,
                   dnsResult, report>>

\* a category button is pressed: filter_by_category, lines 368-389
FilterByCategory ==
    /\ ui.open
    /\ \E category \in ui.buttons :
          LET shown == FilterByCategoryResult(ui.scripts, category,
                                              Lower(ui.search_var))
          IN  ui' = [ui EXCEPT
                        !.current_category = category,
                        !.filtered_scripts = shown,
                        !.buttons = CategoryButtons(shown)]
    /\ UNCHANGED <<args, pc, results, targets, idx, acc, ret, log, inflight,
                   spawned, connects, openSockets, probedFor, failedOp, fault,
                   dnsResult, report>>

\* refresh_scripts, lines 526-534: whatever is on disk now is loaded again
RefreshScripts ==
    /\ ui.open
    /\ \E disk \in SUBSET ScriptPool : ui' = Loaded(disk)
    /\ UNCHANGED <<args, pc, results, targets, idx, acc, ret, log, inflight,
                   spawned, connects, openSockets, probedFor, failedOp, fault,
                   dnsResult, report>>

NextUI == OnSearch \/ FilterByCategory \/ RefreshScripts

SpecUI == InitUI /\ [][NextUI]_vars

\* C17: filtered_scripts is a function of the loaded scripts, the current
\* category and the search text alone, so it does not matter which handler
\* ran last.  on_search can run last in every such state (the same text can
\* be written again), so the function is the one on_search computes.
C17_FilterIsFunction ==
    ui.open =>
        /\ ui.filtered_scripts \subseteq ui.scripts
        /\ ui.filtered_scripts =
              OnSearchResult(ui.scripts, ui.current_category,
                             Lower(ui.search_var))

====
